---- MODULE Spec2Model ----
(***************************************************************************)
(* Token revocation ledger of the coldy_lp auth blueprint                  *)
(* (src/app/blueprints/api/auth.py): sign-up, login, token listing,        *)
(* single-token revoke/unrevoke, logout everywhere and pruning.            *)
(*                                                                         *)
(* The handlers of auth.py are modelled from the source.  The helpers of   *)
(* app/utils/helpers.py and the models of app/models.py are imported by    *)
(* auth.py but are not part of the available source; they are modelled     *)
(* from the written specification and marked as such below.                *)
(***************************************************************************)
EXTENDS Integers, FiniteSets, Sequences, TLC

\* ---------------------------------------------------------------- bounds
\* Number of access tokens minted in a run (jti 1..MaxTokens).
MaxTokens == 2
\* Last value of the clock, in days.
MaxTime == 2

\* ------------------------------------------------------ program constants
\* config.py: JWT_ACCESS_TOKEN_EXPIRES = datetime.timedelta(days=1)
JWT_ACCESS_TOKEN_EXPIRES == 1
\* config.py: JWT_BLACKLIST_ENABLED = True
JWT_BLACKLIST_ENABLED == TRUE
\* config.py: JWT_BLACKLIST_TOKEN_CHECKS = ['access', 'refresh']
JWT_BLACKLIST_TOKEN_CHECKS == {"access", "refresh"}

\* ------------------------------------------------------------ input sets
\* A NULL password_hash column.
NULL == <<>>

\* Addresses a request may carry; the last two are never registered.
Emails == {"a@b.com", "c@d.com"}
SocialEmail == "s@gmail.com"
BadEmail == "a.b.com"
UnknownEmail == "z@z.org"

\* The password every local account here signs up with, a well-formed one
\* that is nobody's, and one the sign-up pattern refuses.
Password == "Abcdef12"
WrongPassword == "Qwerty99"
WeakPassword == "abcdef12"

\* The bearer token of a request without an Authorization header.
NoToken == [jti |-> 0, type |-> "none", identity |-> 0, exp |-> 0]

VARIABLES
    users,      \* credential store: set of User rows
    ledger,     \* TokenBlacklist table: set of rows, jti is the key
    returned,   \* decoded access tokens handed back to callers by login
    nextJti,    \* the next fresh jti (uuid4 of create_access_token)
    now,        \* the clock, in days
    resp,       \* the response of the last request
    pc,         \* position of the in-flight logout request (SpecConc)
    session     \* its SQLAlchemy session: identity, selected rows, dirty rows

vars == <<users, ledger, returned, nextJti, now, resp, pc, session>>

\* ------------------------------------------------------------- responses
Resp(op, status, msg) ==
    [op |-> op, status |-> status, msg |-> msg, access_token |-> NoToken,
     tokens |-> {}]

\* APIException.status_code, the default of the class.
status_code == 400

\* handle_invalid_usage(APIException(message, status_code)): to_dict()
\* serialises the message under the key "error".
APIException(op, message, code) == Resp(op, code, <<"error", message>>)

\* An exception no handler catches: Flask answers 500.
InternalServerError(op) == Resp(op, 500, <<"html", "Internal Server Error">>)

\* No request is being answered.
NoResp == Resp("none", 0, <<"msg", "">>)

IdleSession == [identity |-> 0, selected |-> {}, dirty |-> {}]

\* ------------------------------------------------------- request bodies
\* request.get_json(silent=True) returning None.
NoneBody == [none |-> TRUE]

Has(body, key) == key \in DOMAIN body

\* Requests are pairs <<is_json, body>>; a request that is not JSON has no
\* body to read.
SignUpRequests ==
    { <<TRUE, [email |-> e, password |-> Password, fname |-> "jo",
               lname |-> "doe"]>> : e \in Emails \cup {BadEmail} }
    \cup { <<TRUE, [email |-> "a@b.com", password |-> WeakPassword,
                    fname |-> "jo", lname |-> "doe"]>>,
           <<TRUE, [password |-> Password, fname |-> "jo", lname |-> "doe"]>>,
           <<TRUE, [email |-> "a@b.com", fname |-> "jo", lname |-> "doe"]>>,
           <<TRUE, [email |-> "a@b.com", password |-> Password,
                    lname |-> "doe"]>>,
           <<TRUE, [email |-> "a@b.com", password |-> Password,
                    fname |-> "jo"]>>,
           <<TRUE, NoneBody>>, <<FALSE, NoneBody>> }

\* Login requests are triples <<is_json, body, dbOk>>; dbOk tells whether
\* the ledger insert of this request commits, read only once a token is minted.
LoginRequests ==
    { <<TRUE, [email |-> e, password |-> Password], TRUE>> :
        e \in Emails \cup {SocialEmail, UnknownEmail} }
    \cup { <<TRUE, [email |-> e, password |-> Password], FALSE>> : e \in Emails }
    \cup { <<TRUE, [email |-> "a@b.com", password |-> WrongPassword], TRUE>>,
           <<TRUE, [password |-> Password], TRUE>>,
           <<TRUE, [email |-> "a@b.com"], TRUE>>,
           <<TRUE, NoneBody, TRUE>>, <<FALSE, NoneBody, TRUE>> }

\* Bodies of PUT /token/<token_id>, JSON values written as JSON text: no
\* body, a body without "revoke", "revoke" null, a string, and the booleans.
BadModifyBodies ==
    { NoneBody, [other |-> "1"], [revoke |-> "null"], [revoke |-> "\"yes\""] }

ToggleBodies == { [revoke |-> "true"], [revoke |-> "false"] }

\* ------------------------------------------ helpers outside the source
\* werkzeug.security: a one-way hash and its verification.
generate_password_hash(password) == <<"pbkdf2:sha256", password>>

check_password_hash(pwhash, password) ==
    pwhash = generate_password_hash(password)

\* models.User(email, password, fname, lname, public_id): the password is
\* stored hashed; public_id is str(uuid.uuid4()), fresh for every row.
User(email, password, public_id) ==
    [email |-> email, password_hash |-> generate_password_hash(password),
     public_id |-> public_id]

\* A social-login account: no local password.
SocialUser == [email |-> SocialEmail, password_hash |-> NULL, public_id |-> 1]

\* models.TokenBlacklist row as add_token_to_database stores it.
TokenBlacklist(jti, token_type, user_identity, expires) ==
    [jti |-> jti, token_type |-> token_type, user_identity |-> user_identity,
     revoked |-> FALSE, expires |-> expires]

\* helpers.add_token_to_database(encoded_token, identity_claim): decodes the
\* token and inserts its row; the insert either commits or raises (dbOk).
add_token_to_database(l, token, dbOk) ==
    IF dbOk /\ ~(\E r \in l : r.jti = token.jti)
    THEN [ok |-> TRUE,
          ledger |-> l \cup {TokenBlacklist(token.jti, token.type,
                                            token.identity, token.exp)}]
    ELSE [ok |-> FALSE, ledger |-> l]

\* helpers.is_token_revoked(decoded_token): the stored flag, and TRUE for a
\* jti with no row.
is_token_revoked(l, decoded_token) ==
    LET rows == {r \in l : r.jti = decoded_token.jti}
    IN  IF rows = {} THEN TRUE ELSE (CHOOSE r \in rows : TRUE).revoked

\* helpers.get_user_tokens(user_identity)
get_user_tokens(l, user_identity) ==
    {r \in l : r.user_identity = user_identity}

\* TokenBlacklist.serialize(), reduced to the fields the claims read.
serialize(r) == [jti |-> r.jti, revoked |-> r.revoked]

\* The row set_revoked acts on: the caller's own row with that id, if any.
OwnRows(l, token_id, user) ==
    {r \in l : r.jti = token_id /\ r.user_identity = user}

set_revoked(l, token_id, user, value) ==
    IF OwnRows(l, token_id, user) = {}
    THEN [found |-> FALSE, ledger |-> l]
    ELSE [found |-> TRUE,
          ledger |-> {IF r \in OwnRows(l, token_id, user)
                      THEN [r EXCEPT !.revoked = value] ELSE r : r \in l}]

\* helpers.revoke_token(token_id, user): raises TokenNotFound (found = FALSE)
\* when the caller owns no row with that id.
revoke_token(l, token_id, user) == set_revoked(l, token_id, user, TRUE)

\* helpers.unrevoke_token(token_id, user)
unrevoke_token(l, token_id, user) == set_revoked(l, token_id, user, FALSE)

\* Mutant of prune_database: rows expiring exactly now are deleted too.
prune_database_inclusive(l, t) == {r \in l : ~(r.expires <= t)}

\* helpers.prune_database(): deletes the rows with expires < now.
prune_database(l, t) == {r \in l : ~(r.expires < t)}


\* ------------------------------------------------- the auth blueprint
\* Mutant of check_if_token_revoked: a missing row counts as not revoked.
check_if_token_revoked_failopen(l, decoded_token) ==
    \E r \in l : r.jti = decoded_token.jti /\ r.revoked

\* @jwt.token_in_blacklist_loader
check_if_token_revoked(l, decoded_token) == is_token_revoked(l, decoded_token)

\* Mutant of jwt_required: the blacklist loader is never asked.
jwt_required_noblacklist(op, l, t, clock) ==
    IF t = NoToken
    THEN [ok |-> FALSE,
          resp |-> Resp(op, 401, <<"msg", "Missing Authorization Header">>)]
    ELSE IF t.exp < clock
    THEN [ok |-> FALSE, resp |-> Resp(op, 401, <<"msg", "Token has expired">>)]
    ELSE [ok |-> TRUE, resp |-> Resp(op, 200, <<"msg", "">>)]

\* @jwt_required under config.Config: the request must carry a token this
\* application signed (every token a caller holds is one), it must not be
\* expired, and, the blacklist being enabled for its type, the blacklist
\* loader must not report it revoked.  Every refusal is a 401.
jwt_required(op, l, t, clock) ==
    IF t = NoToken
    THEN [ok |-> FALSE,
          resp |-> Resp(op, 401, <<"msg", "Missing Authorization Header">>)]
    ELSE IF t.exp < clock
    THEN [ok |-> FALSE, resp |-> Resp(op, 401, <<"msg", "Token has expired">>)]
    ELSE IF JWT_BLACKLIST_ENABLED /\ t.type \in JWT_BLACKLIST_TOKEN_CHECKS
            /\ check_if_token_revoked(l, t)
    THEN [ok |-> FALSE,
          resp |-> Resp(op, 401, <<"msg", "Token has been revoked">>)]
    ELSE [ok |-> TRUE, resp |-> Resp(op, 200, <<"msg", "">>)]

\* get_jwt_identity()
get_jwt_identity(t) == t.identity

\* re.search(ereg, email): of the addresses used here only BadEmail, which
\* has no "@", fails the pattern.
ereg_search(email) == email \in Emails \cup {SocialEmail, UnknownEmail}

\* re.search(preg, password): at least 8 characters with a digit, a lower
\* case and an upper case letter; WeakPassword has no upper case letter.
preg_search(password) == password \in {Password, WrongPassword}

\* sign_up, lines 56-79: the first failed validation, or "" when all pass.
sign_up_validate(is_json, body) ==
    IF ~is_json THEN "json request only"
    ELSE IF body = NoneBody THEN "not body in request"
    ELSE IF ~Has(body, "email") THEN "email not found in request"
    ELSE IF ~ereg_search(body.email) THEN "invalid email format"
    ELSE IF ~Has(body, "password") THEN "password not found in request"
    ELSE IF ~preg_search(body.password) THEN "insecure password"
    ELSE IF ~Has(body, "fname") THEN "fname not found in request"
    ELSE IF ~Has(body, "lname") THEN "lname not found in request"
    ELSE ""

\* Mutant of sign_up_fn: the commit of a registered address goes through
\* (no unique email column, no rollback).
sign_up_fn_noconstraint(us, is_json, body) ==
    IF sign_up_validate(is_json, body) # ""
    THEN [users |-> us,
          resp |-> APIException("sign_up", sign_up_validate(is_json, body),
                                status_code)]
    ELSE [users |-> us \cup {User(body.email, body.password,
                                  Cardinality(us) + 1)},
          resp |-> Resp("sign_up", 201, <<"success", "created">>)]

\* sign_up: the new store and the response.  The unique email column makes
\* the commit raise IntegrityError for a registered address.
sign_up_fn(us, is_json, body) ==
    IF sign_up_validate(is_json, body) # ""
    THEN [users |-> us,
          resp |-> APIException("sign_up", sign_up_validate(is_json, body),
                                status_code)]
    ELSE IF \E u \in us : u.email = body.email
    THEN [users |-> us,
          resp |-> APIException("sign_up",
                                "user already created - login instead",
                                status_code)]
    ELSE [users |-> us \cup {User(body.email, body.password,
                                  Cardinality(us) + 1)},
          resp |-> Resp("sign_up", 201, <<"success", "created">>)]


\* login, lines 116-127: the first failed validation, or "" when all pass.
login_validate(is_json, body) ==
    IF ~is_json THEN "not json request"
    ELSE IF body = NoneBody THEN "not json request"
    ELSE IF ~Has(body, "email") THEN "misising email"
    ELSE IF ~Has(body, "password") THEN "missing password"
    ELSE ""

\* User.query.filter_by(email=email): the rows with that address.
UsersByEmail(us, email) == {u \in us : u.email = email}

\* Mutant of login_credentials: the password is not verified.
login_credentials_nopassword(us, body) ==
    LET found == UsersByEmail(us, body.email)
        user == CHOOSE u \in found : TRUE
    IN  IF found = {}
        THEN [ok |-> FALSE, resp |-> APIException("login", "user not found", 404)]
        ELSE IF user.password_hash = NULL
        THEN [ok |-> FALSE,
              resp |-> APIException("login", "user logged with social login",
                                    status_code)]
        ELSE [ok |-> TRUE, resp |-> Resp("login", 200, <<"user", user.email>>)]

\* login, lines 129-137: the credential checks on a validated body.
login_credentials(us, body) ==
    LET found == UsersByEmail(us, body.email)
        user == CHOOSE u \in found : TRUE
    IN  IF found = {}
        THEN [ok |-> FALSE, resp |-> APIException("login", "user not found", 404)]
        ELSE IF user.password_hash = NULL
        THEN [ok |-> FALSE,
              resp |-> APIException("login", "user logged with social login",
                                    status_code)]
        ELSE IF ~check_password_hash(user.password_hash, body.password)
        THEN [ok |-> FALSE, resp |-> APIException("login", "wrong password", 404)]
        ELSE [ok |-> TRUE, resp |-> Resp("login", 200, <<"user", user.email>>)]

\* create_access_token(identity=user.public_id): a fresh jti, the identity
\* claim and the expiry of the configured lifetime.
create_access_token(identity, jti, clock) ==
    [jti |-> jti, type |-> "access", identity |-> identity,
     exp |-> clock + JWT_ACCESS_TOKEN_EXPIRES]

\* Mutant of login_issue: a failed insert is swallowed and the token is
\* returned all the same.
login_issue_swallow(user, l, jti, clock, dbOk) ==
    LET access_token == create_access_token(user.public_id, jti, clock)
        ins == add_token_to_database(l, access_token, dbOk)
    IN  [resp |-> [Resp("login", 200, <<"user", user.email>>)
                       EXCEPT !.access_token = access_token],
         ledger |-> ins.ledger, nextJti |-> jti + 1,
         returned |-> {access_token}]

\* Mutant of login_issue: the jti is the smallest id with no row in the
\* ledger, so the id of a deleted row is handed out again.
login_issue_firstfree(user, l, jti, clock, dbOk) ==
    LET free == CHOOSE j \in 1..(Cardinality(l) + 1) :
                   /\ \A r \in l : r.jti # j
                   /\ \A k \in 1..(j - 1) : \E r \in l : r.jti = k
        access_token == create_access_token(user.public_id, free, clock)
        ins == add_token_to_database(l, access_token, dbOk)
    IN  IF ins.ok
        THEN [resp |-> [Resp("login", 200, <<"user", user.email>>)
                            EXCEPT !.access_token = access_token],
              ledger |-> ins.ledger, nextJti |-> jti + 1,
              returned |-> {access_token}]
        ELSE [resp |-> InternalServerError("login"),
              ledger |-> l, nextJti |-> jti, returned |-> {}]

\* login, lines 139-142: mint, insert, and only then answer with the token;
\* an insert that raises leaves the handler before the return.  The jti of
\* a token that was neither stored nor returned is seen by nobody, so the
\* counter of fresh jtis moves only when the row is stored.
login_issue(user, l, jti, clock, dbOk) ==
    LET access_token == create_access_token(user.public_id, jti, clock)
        ins == add_token_to_database(l, access_token, dbOk)
    IN  IF ins.ok
        THEN [resp |-> [Resp("login", 200, <<"user", user.email>>)
                            EXCEPT !.access_token = access_token],
              ledger |-> ins.ledger, nextJti |-> jti + 1,
              returned |-> {access_token}]
        ELSE [resp |-> InternalServerError("login"),
              ledger |-> l, nextJti |-> jti, returned |-> {}]

\* login, the whole handler.
login_fn(us, l, jti, clock, is_json, body, dbOk) ==
    IF login_validate(is_json, body) # ""
    THEN [resp |-> APIException("login", login_validate(is_json, body),
                                status_code),
          ledger |-> l, nextJti |-> jti, returned |-> {}]
    ELSE IF ~login_credentials(us, body).ok
    THEN [resp |-> login_credentials(us, body).resp,
          ledger |-> l, nextJti |-> jti, returned |-> {}]
    ELSE login_issue(CHOOSE u \in UsersByEmail(us, body.email) : TRUE,
                     l, jti, clock, dbOk)

\* get_tokens, after @jwt_required.
get_tokens_fn(l, t) ==
    [ledger |-> l,
     resp |-> [Resp("get_tokens", 200, <<"msg", "">>) EXCEPT
                 !.tokens = {serialize(r) :
                               r \in get_user_tokens(l, get_jwt_identity(t))}]]

\* Mutant of modify_token_toggle: the two branches are swapped.
modify_token_toggle_swapped(l, user_identity, token_id, revoke) ==
    LET done == IF revoke THEN unrevoke_token(l, token_id, user_identity)
                ELSE revoke_token(l, token_id, user_identity)
    IN  IF ~done.found
        THEN [ledger |-> l,
              resp |-> Resp("modify_token", 404,
                            <<"msg", "The specified token was not found">>)]
        ELSE [ledger |-> done.ledger,
              resp |-> Resp("modify_token", 200,
                            <<"msg", IF revoke THEN "Token revoked"
                                     ELSE "Token unrevoked">>)]

\* Mutant of modify_token_toggle: the row is looked up by id alone, so the
\* caller's identity plays no part.
modify_token_toggle_anyowner(l, user_identity, token_id, revoke) ==
    LET owners == {r.user_identity : r \in {x \in l : x.jti = token_id}}
        owner == IF owners = {} THEN user_identity
                 ELSE CHOOSE o \in owners : TRUE
        done == IF revoke THEN revoke_token(l, token_id, owner)
                ELSE unrevoke_token(l, token_id, owner)
    IN  IF ~done.found
        THEN [ledger |-> l,
              resp |-> Resp("modify_token", 404,
                            <<"msg", "The specified token was not found">>)]
        ELSE [ledger |-> done.ledger,
              resp |-> Resp("modify_token", 200,
                            <<"msg", IF revoke THEN "Token revoked"
                                     ELSE "Token unrevoked">>)]

\* modify_token, lines 168-177: revoke or unrevoke for the caller's identity.
modify_token_toggle(l, user_identity, token_id, revoke) ==
    LET done == IF revoke THEN revoke_token(l, token_id, user_identity)
                ELSE unrevoke_token(l, token_id, user_identity)
    IN  IF ~done.found
        THEN [ledger |-> l,
              resp |-> Resp("modify_token", 404,
                            <<"msg", "The specified token was not found">>)]
        ELSE [ledger |-> done.ledger,
              resp |-> Resp("modify_token", 200,
                            <<"msg", IF revoke THEN "Token revoked"
                                     ELSE "Token unrevoked">>)]

\* modify_token, after @jwt_required.
modify_token_fn(l, t, token_id, json_data) ==
    LET revoke == IF Has(json_data, "revoke") THEN json_data.revoke ELSE "null"
    IN  IF json_data = NoneBody \/ revoke = "null"
        THEN [ledger |-> l,
              resp |-> Resp("modify_token", 400,
                            <<"error", "Missing 'revoke' in body">>)]
        ELSE IF revoke \notin {"true", "false"}
        THEN [ledger |-> l,
              resp |-> Resp("modify_token", 400,
                            <<"error", "'revoke' must be a boolean">>)]
        ELSE modify_token_toggle(l, get_jwt_identity(t), token_id,
                                 revoke = "true")

\* Mutant of revoke_all_tokens: the query has no user_identity filter.
revoke_all_tokens_everyone(l, user_identity) ==
    {IF r.revoked = FALSE THEN [r EXCEPT !.revoked = TRUE] ELSE r : r \in l}

\* Mutant of revoke_all_tokens: .first() instead of .all(), one row is set.
revoke_all_tokens_first(l, user_identity) ==
    LET sel == {r \in l : r.user_identity = user_identity /\ r.revoked = FALSE}
        one == CHOOSE r \in sel : \A x \in sel : r.jti <= x.jti
    IN  IF sel = {} THEN l
        ELSE {IF r = one THEN [r EXCEPT !.revoked = TRUE] ELSE r : r \in l}

\* Mutant of revoke_all_tokens: no revoked=False filter and the flag of
\* every row of the user is inverted.
revoke_all_tokens_invert(l, user_identity) ==
    {IF r.user_identity = user_identity
     THEN [r EXCEPT !.revoked = ~r.revoked] ELSE r : r \in l}

\* logout_user, lines 187-189: the rows the query selects, all set revoked.
revoke_all_tokens(l, user_identity) ==
    {IF r.user_identity = user_identity /\ r.revoked = FALSE
     THEN [r EXCEPT !.revoked = TRUE] ELSE r : r \in l}

\* logout_user, after @jwt_required.
logout_user_fn(l, t, is_json) ==
    IF ~is_json
    THEN [ledger |-> l,
          resp |-> APIException("logout_user", "JSON request only", status_code)]
    ELSE [ledger |-> revoke_all_tokens(l, get_jwt_identity(t)),
          resp |-> Resp("logout_user", 200, <<"success", "user logged out">>)]

\* prune_db, after @jwt_required.
prune_db_fn(l, clock) ==
    [ledger |-> prune_database(l, clock),
     resp |-> Resp("prune_db", 200, <<"success", "db pruned correctly">>)]

\* A protected view: the decorator answers 401 and the view does not run,
\* or the view runs.
Protected(op, l, t, clock, view) ==
    IF jwt_required(op, l, t, clock).ok THEN view
    ELSE [ledger |-> l, resp |-> jwt_required(op, l, t, clock).resp]


\* --------------------------------------------------------------- state
\* The tokens a request may present: one a caller was given, or none.
Bearers == returned \cup {NoToken}

\* Ids a caller may name in PUT /token/<token_id>; 0 is never a row.
TokenIds == 0..MaxTokens

\* PUT /token/<token_id> requests, <<token_id, body>>: a refused body is
\* refused before token_id is read.
ModifyRequests ==
    (TokenIds \X ToggleBodies) \cup ({0} \X BadModifyBodies)

\* A fresh application with an empty ledger.  The credential store holds
\* one social-login account, created by the flow outside this blueprint.
Init ==
    /\ users = {SocialUser}
    /\ ledger = {}
    /\ returned = {}
    /\ nextJti = 1
    /\ now = 0
    /\ resp = NoResp
    /\ pc = "idle"
    /\ session = IdleSession

sign_up(is_json, body) ==
    /\ resp = NoResp
    /\ users' = sign_up_fn(users, is_json, body).users
    /\ resp' = sign_up_fn(users, is_json, body).resp
    /\ UNCHANGED <<ledger, returned, nextJti, now, pc, session>>

\* login, in a run that mints at most `most` tokens.
login_upto(most, is_json, body, dbOk) ==
    LET out == login_fn(users, ledger, nextJti, now, is_json, body, dbOk)
    IN  /\ resp = NoResp
        /\ out.nextJti <= most + 1
        /\ ledger' = out.ledger
        /\ nextJti' = out.nextJti
        /\ returned' = returned \cup out.returned
        /\ resp' = out.resp
        /\ UNCHANGED <<users, now, pc, session>>

login(is_json, body, dbOk) == login_upto(MaxTokens, is_json, body, dbOk)

get_tokens(t) ==
    LET out == Protected("get_tokens", ledger, t, now, get_tokens_fn(ledger, t))
    IN  /\ resp = NoResp
        /\ ledger' = out.ledger
        /\ resp' = out.resp
        /\ UNCHANGED <<users, returned, nextJti, now, pc, session>>

modify_token(t, token_id, json_data) ==
    LET out == Protected("modify_token", ledger, t, now,
                         modify_token_fn(ledger, t, token_id, json_data))
    IN  /\ resp = NoResp
        /\ ledger' = out.ledger
        /\ resp' = out.resp
        /\ UNCHANGED <<users, returned, nextJti, now, pc, session>>

logout_user(t, is_json) ==
    LET out == Protected("logout_user", ledger, t, now,
                         logout_user_fn(ledger, t, is_json))
    IN  /\ resp = NoResp
        /\ ledger' = out.ledger
        /\ resp' = out.resp
        /\ UNCHANGED <<users, returned, nextJti, now, pc, session>>

prune_db(t) ==
    LET out == Protected("prune_db", ledger, t, now, prune_db_fn(ledger, now))
    IN  /\ resp = NoResp
        /\ ledger' = out.ledger
        /\ resp' = out.resp
        /\ UNCHANGED <<users, returned, nextJti, now, pc, session>>

\* The response leaves the application and the next request may come.
Respond ==
    /\ resp # NoResp
    /\ resp' = NoResp
    /\ UNCHANGED <<users, ledger, returned, nextJti, now, pc, session>>

\* A day passes.
Tick ==
    /\ now < MaxTime
    /\ now' = now + 1
    /\ UNCHANGED <<users, ledger, returned, nextJti, resp, pc, session>>

Next ==
    \/ \E rq \in SignUpRequests : sign_up(rq[1], rq[2])
    \/ \E rq \in LoginRequests : login(rq[1], rq[2], rq[3])
    \/ \E t \in Bearers : get_tokens(t)
    \/ \E t \in Bearers, rq \in ModifyRequests : modify_token(t, rq[1], rq[2])
    \/ \E t \in Bearers, is_json \in BOOLEAN : logout_user(t, is_json)
    \/ \E t \in Bearers : prune_db(t)
    \/ Respond
    \/ Tick

Spec == Init /\ [][Next]_vars


\* ------------------------------------------- logout_user, step by step
\* Line 187: TokenBlacklist.query.filter_by(user_identity=..., revoked=False)
logout_query(l, user_identity) ==
    {r.jti : r \in {x \in l : x.user_identity = user_identity
                               /\ x.revoked = FALSE}}

\* Mutant of session_set_revoked: every assignment is written to the table
\* at once (an autocommitting session).
session_set_revoked_autocommit(l, jti) ==
    {IF r.jti = jti THEN [r EXCEPT !.revoked = TRUE] ELSE r : r \in l}

\* Line 189: token.revoked = True changes the object held by the session;
\* the table other requests read is as it was.
session_set_revoked(l, jti) == l

\* Line 191: db.session.commit() flushes one UPDATE per dirty row and commits
\* them in one transaction; an UPDATE that matches no row (the row was
\* deleted meanwhile) raises StaleDataError and the transaction is rolled back.
session_commit(l, dirty) ==
    IF \A j \in dirty : \E r \in l : r.jti = j
    THEN [ok |-> TRUE,
          ledger |-> {IF r.jti \in dirty THEN [r EXCEPT !.revoked = TRUE]
                      ELSE r : r \in l}]
    ELSE [ok |-> FALSE, ledger |-> l]

\* Lines 181-187: the decorator, the JSON check and the query.
LogoutBegin(t, is_json) ==
    /\ pc = "idle"
    /\ resp = NoResp
    /\ IF jwt_required("logout_user", ledger, t, now).ok /\ is_json
       THEN /\ pc' = "loop"
            /\ session' = [identity |-> get_jwt_identity(t),
                           selected |-> logout_query(ledger, get_jwt_identity(t)),
                           dirty |-> {}]
            /\ resp' = resp
       ELSE /\ resp' = Protected("logout_user", ledger, t, now,
                                 logout_user_fn(ledger, t, is_json)).resp
            /\ UNCHANGED <<pc, session>>
    /\ UNCHANGED <<users, ledger, returned, nextJti, now>>

\* Lines 188-189: one turn of the loop.
LogoutMark(jti) ==
    /\ pc = "loop"
    /\ jti \in session.selected \ session.dirty
    /\ ledger' = session_set_revoked(ledger, jti)
    /\ session' = [session EXCEPT !.dirty = @ \cup {jti}]
    /\ UNCHANGED <<users, returned, nextJti, now, resp, pc>>

\* Lines 191-192: the commit and the answer.
LogoutCommit ==
    /\ pc = "loop"
    /\ session.dirty = session.selected
    /\ resp = NoResp
    /\ ledger' = session_commit(ledger, session.dirty).ledger
    /\ resp' = IF session_commit(ledger, session.dirty).ok
               THEN Resp("logout_user", 200, <<"success", "user logged out">>)
               ELSE InternalServerError("logout_user")
    /\ pc' = "idle"
    /\ session' = IdleSession
    /\ UNCHANGED <<users, returned, nextJti, now>>

\* The requests served while one logout request is in progress: those that
\* pass validation, which are the ones that read or write the two tables.
SignUpRequestsConc ==
    {rq \in SignUpRequests : sign_up_validate(rq[1], rq[2]) = ""}

LoginRequestsConc ==
    {rq \in LoginRequests : login_validate(rq[1], rq[2]) = "" /\ rq[3]}

ModifyRequestsConc == TokenIds \X ToggleBodies

NextConc ==
    \/ \E rq \in SignUpRequestsConc : sign_up(rq[1], rq[2])
    \/ \E rq \in LoginRequestsConc : login(rq[1], rq[2], rq[3])
    \/ \E t \in Bearers : get_tokens(t)
    \/ \E t \in Bearers, rq \in ModifyRequestsConc :
          modify_token(t, rq[1], rq[2])
    \/ \E t \in Bearers : prune_db(t)
    \/ \E t \in Bearers, is_json \in BOOLEAN : LogoutBegin(t, is_json)
    \/ \E jti \in 1..MaxTokens : LogoutMark(jti)
    \/ LogoutCommit
    \/ Respond
    \/ Tick

SpecConc == Init /\ [][NextConc]_vars


\* ------------------------------------------------ logging in again
\* Runs long enough for a login to follow a prune: a prune needs one expired
\* row and the live row of its caller, so the login after it is the third.
\* The requests are those that pass validation, and one more token is minted
\* than under Spec.
NextRenew ==
    \/ \E rq \in SignUpRequestsConc : sign_up(rq[1], rq[2])
    \/ \E rq \in LoginRequestsConc :
          login_upto(MaxTokens + 1, rq[1], rq[2], rq[3])
    \/ \E t \in Bearers : get_tokens(t)
    \/ \E t \in Bearers, rq \in ModifyRequestsConc :
          modify_token(t, rq[1], rq[2])
    \/ \E t \in Bearers, is_json \in BOOLEAN : logout_user(t, is_json)
    \/ \E t \in Bearers : prune_db(t)
    \/ Respond
    \/ Tick

SpecRenew == Init /\ [][NextRenew]_vars

\* =============================================================== claims
RowsOf(l, jti) == {r \in l : r.jti = jti}

Jtis == 0..MaxTokens

\* The revocation checker's answer for a bare jti.
Revoked(l, jti) == check_if_token_revoked(l, [jti |-> jti])

\* ---------------------------------------------------------------- C1
\* C1: in every state the revocation checker accepts a jti (answers FALSE)
\* only if the ledger holds a row with that jti and revoked = FALSE; for a
\* jti with no row it answers TRUE; and a prune step never turns a jti the
\* checker refused into one it accepts.
C1_AcceptsOnlyLiveRow(l) ==
    \A j \in Jtis :
        /\ ~Revoked(l, j) => \E r \in RowsOf(l, j) : r.revoked = FALSE
        /\ RowsOf(l, j) = {} => Revoked(l, j)

C1_FailClosed ==
    [][ /\ C1_AcceptsOnlyLiveRow(ledger)
        /\ C1_AcceptsOnlyLiveRow(ledger')
        /\ resp'.op = "prune_db" =>
              \A j \in Jtis : Revoked(ledger, j) => Revoked(ledger', j) ]_vars

\* A prune has deleted the row of a token some caller holds: the checker
\* refuses it, while a surviving live row is accepted.
C1_Witness ==
    /\ resp.op = "prune_db" /\ resp.status = 200
    /\ \E tok \in returned : RowsOf(ledger, tok.jti) = {} /\ Revoked(ledger, tok.jti)
    /\ \E r \in ledger : ~Revoked(ledger, r.jti)

\* ---------------------------------------------------------------- C2
\* C2: right after a successful login the checker accepts the token it
\* minted, and right after the owner's successful toggle of a minted jti
\* with revoke = true the checker refuses that jti.
C2_IssuedLiveThenRevoked ==
    [][ /\ \A rq \in LoginRequests :
              (login(rq[1], rq[2], rq[3]) /\ resp'.status = 200)
              => /\ resp'.access_token \in returned'
                 /\ ~check_if_token_revoked(ledger', resp'.access_token)
        /\ \A tok \in returned, t \in Bearers :
              (/\ t.identity = tok.identity
               /\ modify_token(t, tok.jti, [revoke |-> "true"])
               /\ resp'.status = 200)
              => check_if_token_revoked(ledger', tok) ]_vars

\* The owner has just revoked a token the ledger still holds.
C2_Witness ==
    /\ resp.op = "modify_token" /\ resp.status = 200
    /\ resp.msg = <<"msg", "Token revoked">>
    /\ \E tok \in returned : \E r \in RowsOf(ledger, tok.jti) : r.revoked


\* ---------------------------------------------------------------- C3
\* The four token-protected requests a caller can make with bearer t.
ProtectedRequest(t) ==
    \/ get_tokens(t)
    \/ \E rq \in ModifyRequests : modify_token(t, rq[1], rq[2])
    \/ \E is_json \in BOOLEAN : logout_user(t, is_json)
    \/ prune_db(t)

ProtectedOps == {"get_tokens", "modify_token", "logout_user", "prune_db"}

C4_LogoutRevokesAll ==
    [][ \A t \in Bearers, is_json \in BOOLEAN :
           (logout_user(t, is_json) /\ resp'.status = 200)
           => /\ \A r \in get_user_tokens(ledger', get_jwt_identity(t)) :
                    r.revoked = TRUE
              /\ {r.jti : r \in get_user_tokens(ledger', get_jwt_identity(t))}
                 = {r.jti : r \in get_user_tokens(ledger, get_jwt_identity(t))}
      ]_vars

\* A logout has succeeded for a user who owns several rows.
C4_Witness ==
    /\ resp.op = "logout_user" /\ resp.status = 200
    /\ \E r1, r2 \in ledger :
          /\ r1.jti # r2.jti /\ r1.user_identity = r2.user_identity
          /\ r1.revoked /\ r2.revoked

\* ---------------------------------------------------------------- C5
\* C5: when an authenticated user A toggles a jti whose row is owned by
\* another user B, the answer is the 404 "token not found" answer, it equals
\* the answer A gets for token_id 0, which never has a row, and the ledger,
\* B's row included, is unchanged.
C5_ToggleOwnerOnly ==
    [][ \A t \in Bearers, id \in TokenIds, body \in ToggleBodies :
           (/\ jwt_required("modify_token", ledger, t, now).ok
            /\ \E r \in RowsOf(ledger, id) :
                  r.user_identity # get_jwt_identity(t)
            /\ modify_token(t, id, body))
           => /\ resp'.status = 404
              /\ resp'.msg = <<"msg", "The specified token was not found">>
              /\ RowsOf(ledger, 0) = {}
              /\ resp' = modify_token_fn(ledger, t, 0, body).resp
              /\ ledger' = ledger ]_vars

\* A toggle was answered "not found" while rows of two owners exist, one of
\* them live.
C5_Witness ==
    /\ resp.op = "modify_token" /\ resp.status = 404
    /\ \E r1, r2 \in ledger :
          r1.user_identity # r2.user_identity /\ ~r1.revoked /\ ~r2.revoked

\* ---------------------------------------------------------------- C6
\* C6: a successful prune at time now leaves exactly the rows with
\* expires >= now, each as it was, whatever their revoked flag: the rows with
\* expires < now are gone and no other row is deleted or changed.
C6_PruneExactlyExpired ==
    [][ \A t \in Bearers :
           (prune_db(t) /\ resp'.status = 200)
           => ledger' = {r \in ledger : r.expires >= now} ]_vars

\* A prune has run: the row of an expired token is gone and a row expiring
\* exactly now is still there.
C6_Witness ==
    /\ resp.op = "prune_db" /\ resp.status = 200
    /\ \E r \in ledger : r.expires = now
    /\ \E tok \in returned : tok.exp < now /\ RowsOf(ledger, tok.jti) = {}

\* ---------------------------------------------------------------- C7
\* C7: whenever a row's flag goes from revoked = TRUE to FALSE, the step is
\* a successful toggle of that jti with revoke = false by a bearer whose
\* identity is the row's owner; login, logout-everywhere and prune never
\* unrevoke a row.
C7_UnrevokeOnlyByOwnerToggle ==
    [][ \A r \in ledger : \A r2 \in RowsOf(ledger', r.jti) :
           (r.revoked /\ ~r2.revoked)
           => /\ resp'.op = "modify_token" /\ resp'.status = 200
              /\ \E t \in returned :
                    /\ get_jwt_identity(t) = r.user_identity
                    /\ modify_token(t, r.jti, [revoke |-> "false"]) ]_vars

\* A token was just unrevoked.
C7_Witness ==
    /\ resp.op = "modify_token" /\ resp.status = 200
    /\ resp.msg = <<"msg", "Token unrevoked">>
    /\ \E r \in ledger : ~r.revoked

\* ---------------------------------------------------------------- C8
\* C8: a login answers with an access token only if the row of that token is
\* in the ledger; every token ever returned has its row in the ledger or is
\* past its expiry (only prune deletes rows); and a login whose ledger
\* insert failed returns no token.
C8_ReturnedOnlyIfInserted ==
    /\ (resp.op = "login" /\ resp.access_token # NoToken)
          => /\ resp.access_token \in returned
             /\ \E r \in RowsOf(ledger, resp.access_token.jti) :
                   r.user_identity = resp.access_token.identity
    /\ \A tok \in returned : RowsOf(ledger, tok.jti) # {} \/ tok.exp < now
    /\ (resp.op = "login" /\ resp.status = 500)
          => resp.access_token = NoToken

\* A login's insert failed after earlier logins had succeeded.
C8_Witness ==
    /\ resp.op = "login" /\ resp.status = 500
    /\ resp.access_token = NoToken
    /\ returned # {}

\* ---------------------------------------------------------------- C9
\* A well-formed login request whose address is unknown, whose account has a
\* NULL password_hash, or whose password does not verify.
BadCredentials(us, body) ==
    /\ Has(body, "email") /\ Has(body, "password")
    /\ \/ UsersByEmail(us, body.email) = {}
       \/ \E u \in UsersByEmail(us, body.email) :
             \/ u.password_hash = NULL
             \/ ~check_password_hash(u.password_hash, body.password)

\* C9: such a login mints no token and inserts no row: it is refused, the
\* answer carries no token, and the ledger, the credential store and the
\* tokens in callers' hands are unchanged.
C9_FailedLoginChangesNothing ==
    [][ \A rq \in LoginRequests :
           (rq[1] /\ BadCredentials(users, rq[2]) /\ login(rq[1], rq[2], rq[3]))
           => /\ resp'.status \in {400, 404}
              /\ resp'.access_token = NoToken
              /\ UNCHANGED <<ledger, users, returned, nextJti>> ]_vars

\* A login with a wrong password was refused while the ledger holds rows.
C9_Witness ==
    /\ resp.op = "login" /\ resp.msg = <<"error", "wrong password">>
    /\ ledger # {}

\* --------------------------------------------------------------- C10
\* C10: under SpecConc, no step of the logout request in progress makes only
\* some of the rows it selected revoked: of the selected rows still live
\* before the step, the step flips none or all.
C10_LogoutAtomicAsSet ==
    [][ (pc = "loop") =>
           LET live == {j \in session.selected :
                          \E r \in RowsOf(ledger, j) : ~r.revoked}
               flipped == {j \in live : \E r \in RowsOf(ledger', j) : r.revoked}
           IN  (LogoutCommit \/ \E j \in session.selected : LogoutMark(j))
               => (flipped = {} \/ flipped = live) ]_vars

\* A reader looks at the ledger in the middle of the loop of a logout that
\* selected several rows: none of them is revoked yet.
C10_Witness ==
    /\ pc = "loop"
    /\ Cardinality(session.selected) >= 2
    /\ session.dirty # {} /\ session.dirty # session.selected
    /\ \A j \in session.selected : \E r \in RowsOf(ledger, j) : ~r.revoked


\* --------------------------------------------------------------- C11
\* C11: after a successful sign-up exactly one User row has that email; a
\* valid sign-up for an address already registered is answered 400 "user
\* already created"; and every sign-up that is not answered 201 leaves the
\* credential store as it was.  No address ever has two rows.
C11_SignUpOnceOrUnchanged ==
    [][ /\ \A rq \in SignUpRequests :
              sign_up(rq[1], rq[2])
              => /\ resp'.status = 201
                    => /\ Cardinality(UsersByEmail(users', rq[2].email)) = 1
                       /\ UsersByEmail(users, rq[2].email) = {}
                 /\ (/\ sign_up_validate(rq[1], rq[2]) = ""
                     /\ UsersByEmail(users, rq[2].email) # {})
                    => /\ resp'.status = 400
                       /\ resp'.msg = <<"error",
                                        "user already created - login instead">>
                 /\ resp'.status # 201 => users' = users
        /\ \A u1, u2 \in users' : u1.email = u2.email => u1 = u2 ]_vars

\* A second sign-up for a registered address was refused; the store holds
\* two local accounts.
C11_Witness ==
    /\ resp.op = "sign_up" /\ resp.status = 400
    /\ resp.msg = <<"error", "user already created - login instead">>
    /\ \A e \in Emails : Cardinality(UsersByEmail(users, e)) = 1


\* --------------------------------------------------------------- C12
\* The answer of a well-formed login request in the current state.
LoginAnswer(email, password) ==
    login_fn(users, ledger, nextJti, now, TRUE,
             [email |-> email, password |-> password], TRUE).resp

\* C12: a login with an unregistered address and a login with a registered
\* address and a wrong password get the same answer, status and body, so the
\* answer does not tell whether the address is registered.
C12_LoginAnswersAlike ==
    \A u \in users :
        u.password_hash # NULL
        => LoginAnswer(u.email, WrongPassword)
           = LoginAnswer(UnknownEmail, WrongPassword)


\* --------------------------------------------------------------- C13
\* The ledger after a logout-everywhere request with bearer t on ledger l.
AfterLogout(l, t) ==
    Protected("logout_user", l, t, now, logout_user_fn(l, t, TRUE)).ledger

\* C13: from every state, for every bearer whose logout-everywhere succeeds,
\* a second logout-everywhere of the same user right after the first (with
\* the same or another token of that user) leaves the ledger exactly as the
\* first call left it: its query selects no row and it flips none.
C13_LogoutIdempotent ==
    \A t \in returned :
        jwt_required("logout_user", ledger, t, now).ok
        => LET first == AfterLogout(ledger, t)
               user_identity == get_jwt_identity(t)
           IN  /\ logout_query(first, user_identity) = {}
               /\ revoke_all_tokens(first, user_identity) = first
               /\ \A t2 \in returned :
                     get_jwt_identity(t2) = user_identity
                     => AfterLogout(first, t2) = first

\* A logout has just succeeded for the holder of a token that is not yet
\* expired: its row is revoked and a second logout finds nothing to select.
C13_Witness ==
    /\ resp.op = "logout_user" /\ resp.status = 200
    /\ \E tok \in returned :
          /\ tok.exp >= now
          /\ \E r \in RowsOf(ledger, tok.jti) : r.revoked
          /\ logout_query(ledger, tok.identity) = {}
          /\ AfterLogout(ledger, tok) = ledger


C15_LogoutWithLiveBearerSucceeds ==
    [][ \A t \in returned, is_json \in BOOLEAN :
           (/\ jwt_required("logout_user", ledger, t, now).ok
            /\ logout_user(t, is_json))
           => /\ resp'.status = 200
              /\ \A r \in get_user_tokens(ledger', get_jwt_identity(t)) :
                    r.revoked = TRUE ]_vars

\* --------------------------------------------------------------- C16
\* The endpoints whose failures the boundary serializes.
C16_Endpoints == {"sign_up", "login", "modify_token", "logout_user"}

\* C16: every validation or business-rule failure (400 or 404) of sign-up,
\* login, toggle and logout carries its message under the key "error".
C16_FailuresUnderErrorKey ==
    (resp.op \in C16_Endpoints /\ resp.status \in {400, 404})
    => resp.msg[1] = "error"

\* --------------------------------------------------------------- C17
\* A ledger row without its revoked flag.
C17_Fixed(r) ==
    [jti |-> r.jti, token_type |-> r.token_type,
     user_identity |-> r.user_identity, expires |-> r.expires]

\* C17: a logout-everywhere step of user A keeps the set of rows up to the
\* revoked flag (no insert, no delete, no change of jti, owner or expiry),
\* changes only rows owned by A, and only from live to revoked; rows of every
\* other user, the users and the issued tokens are as before; a refused
\* logout changes nothing.
C17_LogoutFrame ==
    [][ \A t \in Bearers, is_json \in BOOLEAN :
           logout_user(t, is_json)
           => /\ (resp'.status # 200) => ledger' = ledger
              /\ (resp'.status = 200) =>
                    /\ Cardinality(ledger') = Cardinality(ledger)
                    /\ {C17_Fixed(r) : r \in ledger'}
                       = {C17_Fixed(r) : r \in ledger}
                    /\ \A r \in ledger :
                          r.user_identity # get_jwt_identity(t)
                          => r \in ledger'
                    /\ \A r \in ledger' \ ledger :
                          /\ r.user_identity = get_jwt_identity(t)
                          /\ r.revoked
                          /\ [r EXCEPT !.revoked = FALSE] \in ledger
              /\ UNCHANGED <<users, returned, nextJti>> ]_vars

\* A logout has revoked the caller's row while a live row of another user
\* stays live.
C17_Witness ==
    /\ resp.op = "logout_user" /\ resp.status = 200
    /\ \E r1, r2 \in ledger :
          /\ r1.user_identity # r2.user_identity
          /\ r1.revoked /\ ~r2.revoked
          /\ \E tok \in returned : tok.jti = r1.jti /\ tok.exp >= now

\* --------------------------------------------------------------- C18
\* Every row of the user is revoked, and the user has a row.
C18_AllRevoked(l, user_identity) ==
    /\ get_user_tokens(l, user_identity) # {}
    /\ \A r \in get_user_tokens(l, user_identity) : r.revoked

\* C18: a step that turns a row from revoked to live is a toggle whose
\* bearer is another token of the same owner, unexpired and with a live row.
\* Hence, while every row of a user is revoked, every list, toggle, logout
\* and prune request with a token of that user is answered 401 and changes
\* nothing, and a live row of that user appears only as the fresh row of a
\* successful login.
C18_UnrevokeNeedsLiveToken ==
    [][ /\ \A r \in ledger : \A r2 \in RowsOf(ledger', r.jti) :
              (r.revoked /\ ~r2.revoked)
              => \E t \in returned :
                    /\ t.jti # r.jti
                    /\ get_jwt_identity(t) = r.user_identity
                    /\ t.exp >= now
                    /\ \E own \in RowsOf(ledger, t.jti) : ~own.revoked
                    /\ modify_token(t, r.jti, [revoke |-> "false"])
        /\ \A u \in users :
              C18_AllRevoked(ledger, u.public_id)
              => /\ \A t \in returned :
                       (get_jwt_identity(t) = u.public_id
                        /\ ProtectedRequest(t))
                       => (resp'.status = 401 /\ ledger' = ledger)
                 /\ \A r \in get_user_tokens(ledger', u.public_id) :
                       ~r.revoked
                       => /\ RowsOf(ledger, r.jti) = {}
                          /\ resp'.op = "login" /\ resp'.status = 200
                          /\ resp'.access_token.jti = r.jti ]_vars

\* A toggle was refused for a revoked token while each of the two rows of
\* its owner is revoked.
C18_Witness ==
    /\ resp.op = "modify_token" /\ resp.status = 401
    /\ resp.msg = <<"msg", "Token has been revoked">>
    /\ \E u \in users :
          /\ C18_AllRevoked(ledger, u.public_id)
          /\ Cardinality(get_user_tokens(ledger, u.public_id)) >= 2
          /\ \A r \in get_user_tokens(ledger, u.public_id) :
                \E tok \in returned : tok.jti = r.jti /\ tok.exp >= now


====
